---- MODULE Spec2Model ----
(***************************************************************************)
(* Runtime action registration (python/composio/tools/base/runtime.py) and *)
(* schema synthesis (auto_gen/composio_autogen/autogen_toolspec.py).       *)
(*                                                                         *)
(* Strings that the code transforms character by character (tool names,    *)
(* function names, enums) are sequences of one-character strings.          *)
(***************************************************************************)
EXTENDS Integers, Sequences, FiniteSets, TLC

VARIABLES
    registry,        \* registry["runtime"]: tool name -> tool instance
    actionEnum,      \* action id -> the action class's `enum` attribute
    actionTool,      \* action id -> the action class's `tool` attribute
    actions,         \* action id -> what _wrap fixed at creation
    runtimeActions,  \* enum -> ActionData (add_runtime_action)
    classes,         \* the tool classes made by class statements
    outcome,         \* what the last operation returned or raised
    compiled,        \* the last result of _parse_schemas, with its inputs
    call,            \* the last invocation of a compiled entry point
    schema,          \* the parameter schema handed to the synthesizer
    synth,           \* what the synthesizer made of it
    threads,         \* thread -> where its registration stands in _wrap
    workspace,       \* workspace action -> the workspace attached to it
    commands         \* the commands sent to workspaces, oldest first

regVars == <<registry, actionEnum, actionTool, actions, runtimeActions>>

compVars == <<compiled, call>>

synthVars == <<schema, synth>>

threadVars == <<threads>>

wsVars == <<workspace, commands>>

vars == <<registry, actionEnum, actionTool, actions, runtimeActions, classes,
          outcome, compiled, call, schema, synth, threads, workspace, commands>>

----------------------------------------------------------------------------
(* Characters and str methods *)

LowerChars == <<"a","b","c","d","e","f","g","h","i","j","k","l","m",
                "n","o","p","q","r","s","t","u","v","w","x","y","z">>

UpperChars == <<"A","B","C","D","E","F","G","H","I","J","K","L","M",
                "N","O","P","Q","R","S","T","U","V","W","X","Y","Z">>

IsLower(c) == \E i \in 1..Len(LowerChars) : LowerChars[i] = c

IsUpper(c) == \E i \in 1..Len(UpperChars) : UpperChars[i] = c

CharUpper(c) ==
    IF IsLower(c)
    THEN UpperChars[CHOOSE i \in 1..Len(LowerChars) : LowerChars[i] = c]
    ELSE c

CharLower(c) ==
    IF IsUpper(c)
    THEN LowerChars[CHOOSE i \in 1..Len(UpperChars) : UpperChars[i] = c]
    ELSE c

\* str.upper()
Upper(s) == [i \in 1..Len(s) |-> CharUpper(s[i])]

\* str.lower()
Lower(s) == [i \in 1..Len(s) |-> CharLower(s[i])]

\* inflection.camelize(s): re.sub(r"(?:^|_)(.)", upper of group 1), scanned
\* left to right from position i; the match at the start takes one
\* character, a match at an underscore takes the underscore and the next.
RECURSIVE CamelizeFrom(_, _)
CamelizeFrom(s, i) ==
    IF i > Len(s) THEN <<>>
    ELSE IF i = 1 THEN <<CharUpper(s[1])>> \o CamelizeFrom(s, 2)
    ELSE IF s[i] = "_" /\ i < Len(s)
         THEN <<CharUpper(s[i + 1])>> \o CamelizeFrom(s, i + 2)
    ELSE <<s[i]>> \o CamelizeFrom(s, i + 1)

camelize(s) == CamelizeFrom(s, 1)

\* inflection.underscore(s): "_" goes between an upper-case run and its last
\* letter when a lower-case letter follows, and between a lower-case letter
\* and an upper-case one; then the word is lower-cased.
RECURSIVE UnderscoreFrom(_, _)
UnderscoreFrom(s, i) ==
    IF i > Len(s) THEN <<>>
    ELSE LET brk == /\ i > 1
                    /\ IsUpper(s[i])
                    /\ \/ IsLower(s[i - 1])
                       \/ /\ IsUpper(s[i - 1])
                          /\ i < Len(s)
                          /\ IsLower(s[i + 1])
         IN (IF brk THEN <<"_">> ELSE <<>>)
                \o <<CharLower(s[i])>> \o UnderscoreFrom(s, i + 1)

underscore(s) == UnderscoreFrom(s, 1)

----------------------------------------------------------------------------
(* Callables handed to the `action` decorator, as inspect sees them *)

None == [of |-> "None"]

\* `...`: the pydantic marker of a field without default (required)
Ellipsis == [of |-> "Ellipsis"]

\* Annotations.  kind "Model": a pydantic.BaseModel subclass; "Class": any
\* other class (int, str, dict); "Shell": composio's Shell class; "Generic":
\* an annotation that is not a class (typing.List[int]); "Annotated":
\* typing.Annotated[id, *spec].
ModelAnnot(id) == [kind |-> "Model", id |-> id, spec |-> <<>>]

ClassAnnot(id) == [kind |-> "Class", id |-> id, spec |-> <<>>]

GenericAnnot(id) == [kind |-> "Generic", id |-> id, spec |-> <<>>]

ShellAnnot == [kind |-> "Shell", id |-> "Shell", spec |-> <<>>]

AnnotatedAnnot(id, spec) == [kind |-> "Annotated", id |-> id, spec |-> spec]

\* Items of an Annotated[...] spec: an ArgSpec instance, a str, anything else
ArgSpecItem(desc, dflt) == [k |-> "ArgSpec", description |-> desc, default |-> dflt]

StrItem(v) == [k |-> "str", description |-> v, default |-> None]

OtherItem(v) == [k |-> "other", description |-> "", default |-> v]

\* inspect.getfullargspec(f).annotations is a dict: "return" first when the
\* callable has a return annotation, then the annotated arguments in order.
AnnotKeys(annotations) == [i \in 1..Len(annotations) |-> annotations[i].arg]

HasKey(annotations, key) == \E i \in 1..Len(annotations) : annotations[i].arg = key

AnnotOf(annotations, key) ==
    annotations[CHOOSE i \in 1..Len(annotations) : annotations[i].arg = key].annot

InSeq(x, s) == \E i \in 1..Len(s) : s[i] = x

Reverse(s) == [i \in 1..Len(s) |-> s[Len(s) + 1 - i]]

Min(a, b) == IF a < b THEN a ELSE b

\* A result of a function that may raise: err = "none" or the exception type
Ok(v) == [err |-> "none", val |-> v]

Raise(e) == [err |-> e, val |-> <<>>]

\* _is_simple_action
_is_simple_action(argspec) ==
    IF ~InSeq("request_data", argspec.args) /\ ~InSeq("metadata", argspec.args)
    THEN Ok(FALSE)
    ELSE IF ~HasKey(argspec.annotations, "request_data")
    THEN Raise("KeyError")
    ELSE IF AnnotOf(argspec.annotations, "request_data").kind \in {"Generic", "Annotated"}
    THEN Raise("TypeError")
    ELSE IF AnnotOf(argspec.annotations, "request_data").kind # "Model"
    THEN Raise("ValueError")
    ELSE IF ~HasKey(argspec.annotations, "return")
    THEN Raise("KeyError")
    ELSE IF AnnotOf(argspec.annotations, "return").kind \in {"Generic", "Annotated"}
    THEN Raise("TypeError")
    ELSE IF AnnotOf(argspec.annotations, "return").kind # "Model"
    THEN Raise("ValueError")
    ELSE Ok(TRUE)

\* _parse_raw_type: the description is the title-cased argument name
_parse_raw_type(argument, annotation) ==
    [type |-> annotation, description |-> <<"Title", argument>>]

\* _parse_annotated_type
_parse_annotated_type(argument, annotation) ==
    LET annotspec == annotation.spec
    IN  IF Len(annotspec) = 1 /\ annotspec[1].k = "ArgSpec"
        THEN Ok([type |-> ClassAnnot(annotation.id),
                 description |-> annotspec[1].description,
                 default |-> annotspec[1].default])
        ELSE IF Len(annotspec) = 1 /\ annotspec[1].k = "str"
        THEN Ok([type |-> ClassAnnot(annotation.id),
                 description |-> annotspec[1].description,
                 default |-> None])
        ELSE IF Len(annotspec) = 2 /\ annotspec[1].k = "str"
        THEN Ok([type |-> ClassAnnot(annotation.id),
                 description |-> annotspec[1].description,
                 default |-> annotspec[2].default])
        ELSE Raise("ValueError")

\* Docstrings.  present = FALSE is __doc__ = None.  `header` is the first
\* line of the stripped text; `lines` are the lines after it.  A line has
\* kind "blank", "text", "param" (it contains ":param") or "return" (it
\* contains ":return"); `parts` is the number of pieces that splitting the
\* line at ":" gives once the tag is removed.
NoReturns == <<>>

RECURSIVE ParseLines(_, _, _, _)
ParseLines(lines, i, params, returns) ==
    IF i > Len(lines) THEN Ok([params |-> params, returns |-> returns])
    ELSE LET l == lines[i]
         IN  IF l.kind \in {"blank", "text"}
             THEN ParseLines(lines, i + 1, params, returns)
             ELSE IF l.parts # 2
             THEN Raise("ValueError")
             ELSE IF l.kind = "param"
             THEN ParseLines(lines, i + 1,
                      [a \in DOMAIN params \cup {l.name} |->
                          IF a = l.name THEN l.desc ELSE params[a]],
                      returns)
             ELSE ParseLines(lines, i + 1, params, <<l.name, l.desc>>)

\* _parse_docstring
_parse_docstring(docstr) ==
    IF ~docstr.present THEN Raise("AttributeError")
    ELSE LET r == ParseLines(docstr.lines, 1, <<>>, NoReturns)
         IN  IF r.err # "none" THEN r
             ELSE Ok([header |-> docstr.header,
                      params |-> r.val.params,
                      returns |-> r.val.returns])

\* No execution-context argument seen (shell_argument = None); "None" is a
\* Python keyword, so no argument has this name.
NoArg == "None"

\* Field(default=..., description=...) together with its annotation
FieldInfo(name, type, default, description) ==
    [name |-> name, type |-> type, default |-> default, description |-> description]

\* A model class created by type(name, (BaseModel,), schema)
SynthModel(name, fields) == [kind |-> "Synth", id |-> name, spec |-> fields]

\* dict(zip(reversed(argspec.annotations), reversed(argspec.defaults or [])))
ZipDefaults(argspec) ==
    LET keys == Reverse(AnnotKeys(argspec.annotations))
        vals == Reverse(argspec.defaults)
        n    == Min(Len(keys), Len(vals))
    IN  [a \in {keys[i] : i \in 1..n} |->
            vals[CHOOSE i \in 1..n : keys[i] = a]]

\* The loop of _build_executable_from_args over argspec.annotations.items(),
\* from item i on; acc holds shell_argument and both schema dicts.
RECURSIVE BuildLoop(_, _, _, _, _)
BuildLoop(annotations, i, defaults, doc, acc) ==
    IF i > Len(annotations) THEN Ok(acc)
    ELSE
    LET arg   == annotations[i].arg
        annot == annotations[i].annot
    IN  IF annot.kind = "Shell"
        THEN BuildLoop(annotations, i + 1, defaults, doc,
                       [acc EXCEPT !.shell_argument = arg])
        ELSE
        LET parsed ==
                IF annot.kind = "Annotated"
                THEN _parse_annotated_type(arg, annot)
                ELSE Ok([type |-> _parse_raw_type(arg, annot).type,
                         description |->
                            IF arg = "return" /\ doc.returns # NoReturns
                            THEN doc.returns[2]
                            ELSE IF arg \in DOMAIN doc.params
                            THEN doc.params[arg]
                            ELSE _parse_raw_type(arg, annot).description,
                         default |->
                            IF arg \in DOMAIN defaults
                            THEN defaults[arg] ELSE Ellipsis])
        IN  IF parsed.err # "none" THEN parsed
            ELSE IF arg = "return"
            THEN LET rname == IF doc.returns # NoReturns
                              THEN doc.returns[1] ELSE arg
                 IN  BuildLoop(annotations, i + 1, defaults, doc,
                        [acc EXCEPT !.response =
                            Append(SelectSeq(@, LAMBDA fl : fl.name # rname),
                                   FieldInfo(rname, parsed.val.type,
                                             parsed.val.default,
                                             parsed.val.description))])
            ELSE BuildLoop(annotations, i + 1, defaults, doc,
                        [acc EXCEPT !.request =
                            Append(SelectSeq(@, LAMBDA fl : fl.name # arg),
                                   FieldInfo(arg, parsed.val.type,
                                             parsed.val.default,
                                             parsed.val.description))])

RequestSuffix == <<"R","e","q","u","e","s","t">>

ResponseSuffix == <<"R","e","s","p","o","n","s","e">>

\* The closure `execute` that _build_executable_from_args returns
ExecuteClosure(f, header, shell_argument, returns, ResponseSchema) ==
    [kind |-> "execute", name |-> f.name, doc |-> header, f |-> f,
     shell_argument |-> shell_argument, returns |-> returns,
     ResponseSchema |-> ResponseSchema]

\* _build_executable_from_args
_build_executable_from_args(f) ==
    LET argspec == f
        doc == _parse_docstring(f.doc)
    IN  IF doc.err # "none" THEN doc
        ELSE
        LET built == BuildLoop(argspec.annotations, 1, ZipDefaults(argspec), doc.val,
                        [shell_argument |-> NoArg, request |-> <<>>, response |-> <<>>])
        IN  IF built.err # "none" THEN built
            ELSE
            LET RequestSchema  == SynthModel(camelize(f.name) \o RequestSuffix,
                                             built.val.request)
                ResponseSchema == SynthModel(camelize(f.name) \o ResponseSuffix,
                                             built.val.response)
            IN  Ok([entry |-> ExecuteClosure(f, doc.val.header,
                                  built.val.shell_argument, doc.val.returns,
                                  ResponseSchema),
                    request |-> RequestSchema,
                    response |-> ResponseSchema,
                    runs_on_shell |-> built.val.shell_argument # NoArg])

\* _parse_schemas when the simple path returns runs_on_shell = False
_parse_schemas_DropsFlag(f, runs_on_shell) ==
    LET simple == _is_simple_action(f)
    IN  IF simple.err # "none" THEN simple
        ELSE IF simple.val
        THEN Ok([entry |-> f,
                 request |-> AnnotOf(f.annotations, "request_data"),
                 response |-> AnnotOf(f.annotations, "return"),
                 runs_on_shell |-> FALSE])
        ELSE _build_executable_from_args(f)

\* _parse_schemas
_parse_schemas(f, runs_on_shell) ==
    LET simple == _is_simple_action(f)
    IN  IF simple.err # "none" THEN simple
        ELSE IF simple.val
        THEN Ok([entry |-> f,
                 request |-> AnnotOf(f.annotations, "request_data"),
                 response |-> AnnotOf(f.annotations, "return"),
                 runs_on_shell |-> runs_on_shell])
        ELSE _build_executable_from_args(f)

----------------------------------------------------------------------------
(* Tool classes, the metaclass hook and the registry *)

RuntimeToolName == <<"R","u","n","t","i","m","e","T","o","o","l">>

Underscore == <<"_">>

\* A tool class right after type.__new__: nothing set by the hook yet
NewToolClass(cname, accessor, acts) ==
    [cname |-> cname, accessor |-> accessor, actions |-> acts,
     initialised |-> FALSE,
     name |-> <<>>, enum |-> <<>>, _actions |-> <<>>]

\* The loop below with `action.enum = action.enum`: no tool prefix
RECURSIVE NamespaceLoop_NoPrefix(_, _, _, _)
NamespaceLoop_NoPrefix(acts, i, cls, st) ==
    IF i > Len(acts) THEN st
    ELSE LET a    == acts[i]
             enum == st.actionEnum[a]
         IN  NamespaceLoop_NoPrefix(acts, i + 1, cls,
                [actionTool |-> [st.actionTool EXCEPT ![a] = cls.name],
                 actionEnum |-> st.actionEnum,
                 _actions   |-> [e \in DOMAIN st._actions \cup {enum} |->
                                    IF e = enum THEN a ELSE st._actions[e]]])

\* The loop `for action in cls.actions()` of RuntimeToolMeta.__init__ from
\* position i on; st holds the action classes' attributes and cls._actions.
RECURSIVE NamespaceLoop(_, _, _, _)
NamespaceLoop(acts, i, cls, st) ==
    IF i > Len(acts) THEN st
    ELSE LET a    == acts[i]
             enum == cls.enum \o Underscore \o st.actionEnum[a]
         IN  NamespaceLoop(acts, i + 1, cls,
                [actionTool |-> [st.actionTool EXCEPT ![a] = cls.name],
                 actionEnum |-> [st.actionEnum EXCEPT ![a] = enum],
                 _actions   |-> [e \in DOMAIN st._actions \cup {enum} |->
                                    IF e = enum THEN a ELSE st._actions[e]]])

\* The hook below without the inspect.ismethod check
RuntimeToolMeta__init___NoMethodCheck(name, accessor, acts, autoload, aEnum, aTool) ==
    LET cls == NewToolClass(name, accessor, acts)
    IN  IF name = RuntimeToolName
        THEN Ok([cls |-> cls, actionEnum |-> aEnum, actionTool |-> aTool,
                 load |-> FALSE])
        ELSE IF accessor = "abstract" THEN Raise("RuntimeError")
        ELSE
        LET named == [cls EXCEPT !.initialised = TRUE,
                                 !.name = underscore(name),
                                 !.enum = Upper(underscore(name))]
            st    == NamespaceLoop(acts, 1, named,
                        [actionTool |-> aTool, actionEnum |-> aEnum,
                         _actions |-> <<>>])
        IN  Ok([cls |-> [named EXCEPT !._actions = st._actions],
                actionEnum |-> st.actionEnum, actionTool |-> st.actionTool,
                load |-> autoload])

\* RuntimeToolMeta.__init__(cls, name, bases, dict_, autoload).  accessor is
\* what `actions` is on the class: "abstract" (still RuntimeTool's abstract
\* method), "function" (implemented, not a class method) or "classmethod".
\* val.load says that the hook went on to cls.register().
RuntimeToolMeta__init__(name, accessor, acts, autoload, aEnum, aTool) ==
    LET cls == NewToolClass(name, accessor, acts)
    IN  IF name = RuntimeToolName
        THEN Ok([cls |-> cls, actionEnum |-> aEnum, actionTool |-> aTool,
                 load |-> FALSE])
        ELSE IF accessor = "abstract" THEN Raise("RuntimeError")
        ELSE IF accessor # "classmethod" THEN Raise("RuntimeError")
        ELSE
        LET named == [cls EXCEPT !.initialised = TRUE,
                                 !.name = underscore(name),
                                 !.enum = Upper(underscore(name))]
            st    == NamespaceLoop(acts, 1, named,
                        [actionTool |-> aTool, actionEnum |-> aEnum,
                         _actions |-> <<>>])
        IN  Ok([cls |-> [named EXCEPT !._actions = st._actions],
                actionEnum |-> st.actionEnum, actionTool |-> st.actionTool,
                load |-> autoload])

\* The function below when the new tool lists every action class there is
_create_tool_class_ListsAll(name, acts, aEnum, aTool) ==
    RuntimeToolMeta__init__(camelize(name), "classmethod",
                            [i \in 1..Len(aEnum) |-> Len(aEnum) + 1 - i],
                            FALSE, aEnum, aTool)

\* _create_tool_class: type(inflection.camelize(name), (_Tool, RuntimeTool), ...)
\* with a class method `actions` returning the given list; runs the hook.
_create_tool_class(name, acts, aEnum, aTool) ==
    RuntimeToolMeta__init__(camelize(name), "classmethod", acts, FALSE, aEnum, aTool)

\* ActionData(...) in the WrappedAction class body
WrappedActionData(fname, toolname, tags, run_on_shell) ==
    [name |-> fname, app |-> toolname, tags |-> tags, no_auth |-> TRUE,
     is_local |-> TRUE, is_runtime |-> TRUE, shell |-> run_on_shell]

\* The WrappedAction subclass that _wrap creates, before tool attachment.
\* `tool` and `enum` are the class body's values; the hook reassigns the
\* attributes, which live in actionTool and actionEnum.  `key` records the
\* enum under which _wrap hands `data` to add_runtime_action.
WrappedAction(f, toolname, tags, request_schema, response_schema, runs_on_shell) ==
    [tool |-> toolname, name |-> f.name, enum |-> Upper(f.name),
     display_name |-> f.name, run_on_shell |-> runs_on_shell,
     request |-> request_schema, response |-> response_schema,
     data |-> WrappedActionData(f.name, toolname, tags, runs_on_shell),
     f |-> f, key |-> <<>>]

\* composio.client.enums.base.add_runtime_action(name, data)
add_runtime_action(mapping, name, data) ==
    [e \in DOMAIN mapping \cup {name} |-> IF e = name THEN data ELSE mapping[e]]

\* The lookup below when the stored tool's actions are not carried over
ExistingActions_Dropped(reg, toolname) == <<>>

\* The actions() list of the tool stored under toolname, [] when none is
ExistingActions(reg, toolname) ==
    IF toolname \in DOMAIN reg THEN reg[toolname].actions ELSE <<>>

\* _wrap when an enum that is already in the mapping keeps its first data
_wrap_FirstWriteWins(f, toolname, tags, request_schema, response_schema, runs_on_shell) ==
    LET id   == Len(actions) + 1
        cls  == WrappedAction(f, toolname, tags, request_schema,
                              response_schema, runs_on_shell)
        existing_actions == ExistingActions(registry, toolname)
        tool == _create_tool_class(toolname, <<id>> \o existing_actions,
                                   Append(actionEnum, cls.enum),
                                   Append(actionTool, cls.tool))
    IN  /\ actions' = Append(actions, [cls EXCEPT !.key = tool.val.actionEnum[id]])
        /\ actionEnum' = tool.val.actionEnum
        /\ actionTool' = tool.val.actionTool
        /\ registry' = [t \in DOMAIN registry \cup {toolname} |->
                           IF t = toolname THEN tool.val.cls ELSE registry[t]]
        /\ runtimeActions' =
              IF tool.val.actionEnum[id] \in DOMAIN runtimeActions
              THEN runtimeActions
              ELSE add_runtime_action(runtimeActions,
                                      tool.val.actionEnum[id], cls.data)

\* _wrap: f becomes a new action class of tool toolname; the class it
\* returns is actions[Len(actions) + 1]
_wrap(f, toolname, tags, request_schema, response_schema, runs_on_shell) ==
    LET id   == Len(actions) + 1
        cls  == WrappedAction(f, toolname, tags, request_schema,
                              response_schema, runs_on_shell)
        existing_actions == ExistingActions(registry, toolname)
        tool == _create_tool_class(toolname, <<id>> \o existing_actions,
                                   Append(actionEnum, cls.enum),
                                   Append(actionTool, cls.tool))
    IN  /\ actions' = Append(actions, [cls EXCEPT !.key = tool.val.actionEnum[id]])
        /\ actionEnum' = tool.val.actionEnum
        /\ actionTool' = tool.val.actionTool
        /\ registry' = [t \in DOMAIN registry \cup {toolname} |->
                           IF t = toolname THEN tool.val.cls ELSE registry[t]]
        /\ runtimeActions' = add_runtime_action(runtimeActions,
                                 tool.val.actionEnum[id], cls.data)

\* The decorator when the tool entry is stored before f is compiled
action_StoresToolFirst(f, toolname, runs_on_shell, tags) ==
    LET parsed == _parse_schemas(f, runs_on_shell)
    IN  /\ outcome' = [op |-> "action", err |-> parsed.err,
                        ret |-> IF parsed.err = "none" THEN Len(actions) + 1 ELSE 0,
                        f |-> f, toolname |-> toolname,
                        runs_on_shell |-> runs_on_shell]
        /\ UNCHANGED <<classes, compVars, synthVars, threadVars, wsVars>>
        /\ IF parsed.err # "none"
           THEN /\ registry' = [t \in DOMAIN registry \cup {toolname} |->
                                   IF t = toolname
                                   THEN NewToolClass(camelize(toolname),
                                            "classmethod",
                                            ExistingActions(registry, toolname))
                                   ELSE registry[t]]
                /\ UNCHANGED <<actionEnum, actionTool, actions, runtimeActions>>
           ELSE _wrap(parsed.val.entry, toolname, tags, parsed.val.request,
                      parsed.val.response, parsed.val.runs_on_shell)

\* action(toolname, runs_on_shell, tags)(f): the decorator applied to f
action(f, toolname, runs_on_shell, tags) ==
    LET parsed == _parse_schemas(f, runs_on_shell)
    IN  /\ outcome' = [op |-> "action", err |-> parsed.err,
                        ret |-> IF parsed.err = "none" THEN Len(actions) + 1 ELSE 0,
                        f |-> f, toolname |-> toolname,
                        runs_on_shell |-> runs_on_shell]
        /\ UNCHANGED <<classes, compVars, synthVars, threadVars, wsVars>>
        /\ IF parsed.err # "none"
           THEN UNCHANGED regVars
           ELSE _wrap(parsed.val.entry, toolname, tags, parsed.val.request,
                      parsed.val.response, parsed.val.runs_on_shell)

----------------------------------------------------------------------------
(* Registrations through the decorator *)

\* Bound on the number of action classes created
MaxRegs == 2

ToolNames == { <<"a","b">>, <<"c","d">>, <<"a","b","_","c","d">> }

Callable(name, args, annotations, defaults, doc) ==
    [kind |-> "callable", name |-> name, args |-> args,
     annotations |-> annotations, defaults |-> defaults, doc |-> doc]

Annot(arg, annot) == [arg |-> arg, annot |-> annot]

DocLine(kind, name, desc, parts) ==
    [kind |-> kind, name |-> name, desc |-> desc, parts |-> parts]

Doc(header, lines) == [present |-> TRUE, header |-> header, lines |-> lines]

NoDoc == [present |-> FALSE, header |-> "", lines |-> <<>>]

\* def name(request_data: Req, metadata: dict) -> Res
SimpleFn(name) ==
    Callable(name, <<"request_data", "metadata">>,
             <<Annot("return", ModelAnnot("Res")),
               Annot("request_data", ModelAnnot("Req")),
               Annot("metadata", ClassAnnot("dict"))>>,
             <<>>, Doc("Simple.", <<>>))

\* def name(shell: Shell, x: int) -> str, with :param and :return lines
ShellFn(name) ==
    Callable(name, <<"shell", "x">>,
             <<Annot("return", ClassAnnot("str")),
               Annot("shell", ShellAnnot),
               Annot("x", ClassAnnot("int"))>>,
             <<>>,
             Doc("On shell.", <<DocLine("param", "x", <<"the x">>, 2),
                                DocLine("return", "out", <<"the output">>, 2)>>))

\* def name(x: int = 1)
PlainFn(name) ==
    Callable(name, <<"x">>, <<Annot("x", ClassAnnot("int"))>>,
             <<[of |-> "x"]>>, Doc("Plain.", <<>>))

\* def name(metadata: dict): _is_simple_action raises KeyError
BadFn(name) ==
    Callable(name, <<"metadata">>, <<Annot("metadata", ClassAnnot("dict"))>>,
             <<>>, Doc("Bad.", <<>>))

RegCallables ==
    { SimpleFn(<<"e">>), ShellFn(<<"E">>), PlainFn(<<"c","d","_","e">>),
      BadFn(<<"e">>) }

NoOutcome ==
    [op |-> "init", err |-> "none", ret |-> 0, f |-> <<>>, toolname |-> <<>>,
     runs_on_shell |-> FALSE]

NoCompiled == [f |-> <<>>, runs_on_shell |-> FALSE, result |-> Raise("init")]

NoCall == [called |-> FALSE]

NoSchema == [type |-> "none"]

NoSynth ==
    [model |-> Raise("init"), parameters |-> Raise("init"),
     signature |-> Raise("init")]

\* Threads that register through the decorator at the same time
NumThreads == 2

Threads == 1..NumThreads

\* A thread that has not called the decorator yet
NoThread ==
    [pc |-> "idle", toolname |-> <<>>, id |-> 0, existing_actions |-> <<>>,
     tool |-> <<>>, seen |-> <<>>]

\* The workspace command actions of cmds.py
WorkspaceActions == {"GoToLineNumInOpenFile", "CreateFileCmd", "OpenFile"}

InitOther ==
    /\ compiled = NoCompiled
    /\ call = NoCall
    /\ schema = NoSchema
    /\ synth = NoSynth
    /\ threads = [t \in Threads |-> NoThread]
    /\ workspace = [a \in WorkspaceActions |-> None]
    /\ commands = <<>>

Init ==
    /\ registry = <<>>
    /\ actionEnum = <<>>
    /\ actionTool = <<>>
    /\ actions = <<>>
    /\ runtimeActions = <<>>
    /\ classes = <<>>
    /\ outcome = NoOutcome
    /\ InitOther

Register ==
    /\ Len(actions) < MaxRegs
    /\ \E f \in RegCallables, toolname \in ToolNames, runs_on_shell \in BOOLEAN :
          action(f, toolname, runs_on_shell, <<>>)

Next == Register

Spec == Init /\ [][Next]_vars

----------------------------------------------------------------------------
(* Properties of the registry *)

ActionIds == 1..Len(actions)

\* The ids of the actions registered under toolname, newest first
RECURSIVE NewestFirst(_, _)
NewestFirst(toolname, n) ==
    IF n = 0 THEN <<>>
    ELSE (IF actions[n].tool = toolname THEN <<n>> ELSE <<>>)
            \o NewestFirst(toolname, n - 1)

\* C1: every action in a registered tool's actions() list has the enum
\* uppercase(tool name) + "_" + uppercase(action name), one tool prefix only,
\* whatever was registered under the same tool afterwards.
C1_EnumIsToolUnderscoreName ==
    \A t \in DOMAIN registry :
        \A i \in 1..Len(registry[t].actions) :
            LET a == registry[t].actions[i]
            IN  actionEnum[a] = Upper(t) \o Underscore \o Upper(actions[a].name)

\* C2: the actions() list of the tool stored under T is the sequence of all
\* actions registered under T, newest first; none is dropped.
C2_ActionsListNewestFirst ==
    /\ \A t \in DOMAIN registry :
          registry[t].actions = NewestFirst(t, Len(actions))
    /\ \A a \in ActionIds : actions[a].tool \in DOMAIN registry

C2_Witness ==
    \E t \in DOMAIN registry :
        /\ Len(registry[t].actions) >= 2
        /\ actions[registry[t].actions[1]].name = actions[registry[t].actions[2]].name

\* The last action registered at enum key k
LastAt(k) ==
    CHOOSE a \in ActionIds :
        /\ actions[a].key = k
        /\ \A b \in ActionIds : actions[b].key = k => b <= a

\* C3: the enum-to-data mapping holds, at every enum, the data of the action
\* registered last at that enum, and a registration that compiles is not
\* refused because its enum is taken.
C3_LastWriteWins ==
    /\ DOMAIN runtimeActions = {actions[a].key : a \in ActionIds}
    /\ \A k \in DOMAIN runtimeActions :
          /\ runtimeActions[k].name = actions[LastAt(k)].name
          /\ runtimeActions[k].app = actions[LastAt(k)].tool
          /\ runtimeActions[k].shell = actions[LastAt(k)].run_on_shell
    /\ outcome.op = "action" /\ outcome.err # "none"
          => _parse_schemas(outcome.f, outcome.runs_on_shell).err = outcome.err

C3_Witness ==
    \E a, b \in ActionIds :
        /\ a < b
        /\ b = outcome.ret
        /\ actions[a].key = actions[b].key
        /\ actions[a].data # actions[b].data
        /\ runtimeActions[actions[b].key] = actions[b].data

\* Names made of lower-case letters only
LowerOnly(s) == \A i \in 1..Len(s) : IsLower(s[i])

C5_FailedCompileLeavesRegistry ==
    [][ /\ outcome'.op = "action"
        /\ _parse_schemas(outcome'.f, outcome'.runs_on_shell).err # "none"
        => /\ outcome'.err = _parse_schemas(outcome'.f, outcome'.runs_on_shell).err
           /\ outcome'.ret = 0
           /\ UNCHANGED regVars ]_vars

C5_Witness ==
    /\ outcome.op = "action"
    /\ outcome.err = "KeyError"
    /\ Len(actions) > 0
    /\ outcome.toolname \notin DOMAIN registry

----------------------------------------------------------------------------
(* Tool classes written as class statements *)

\* Bound on the number of tool classes defined by class statements
MaxClasses == 1

ClassNames == { <<"A","b">>, <<"X","y">>, RuntimeToolName }

Accessors == {"abstract", "function", "classmethod"}

\* What a class's actions() may return: no action class, one of those that
\* exist, or all of them
ActionLists ==
    {<<>>} \cup {<<a>> : a \in ActionIds}
           \cup {[i \in 1..Len(actions) |-> Len(actions) + 1 - i]}

\* LocalToolMixin.register: the tool instance goes into the registry under
\* the tool's name
register(reg, cls) ==
    [t \in DOMAIN reg \cup {cls.name} |-> IF t = cls.name THEN cls ELSE reg[t]]

\* class <name>(RuntimeTool, autoload=<autoload>) with the given accessor
DefineTool(name, accessor, acts, autoload) ==
    LET r == RuntimeToolMeta__init__(name, accessor, acts, autoload,
                                     actionEnum, actionTool)
    IN  /\ outcome' = [op |-> "class", err |-> r.err, name |-> name,
                       accessor |-> accessor, acts |-> acts,
                       autoload |-> autoload]
        /\ UNCHANGED <<actions, runtimeActions, compVars, synthVars, threadVars, wsVars>>
        /\ IF r.err # "none"
           THEN UNCHANGED <<registry, actionEnum, actionTool, classes>>
           ELSE /\ actionEnum' = r.val.actionEnum
                /\ actionTool' = r.val.actionTool
                /\ classes' = Append(classes, r.val.cls)
                /\ registry' = IF r.val.load THEN register(registry, r.val.cls)
                                             ELSE registry

Define ==
    /\ Len(classes) < MaxClasses
    /\ \E name \in ClassNames, accessor \in Accessors, acts \in ActionLists,
          autoload \in BOOLEAN :
          DefineTool(name, accessor, acts, autoload)

\* Registrations that give class statements actions to list
RegisterSimple ==
    /\ Len(actions) < MaxRegs
    /\ action(SimpleFn(<<"e">>), <<"a","b">>, FALSE, <<>>)

NextDefine == RegisterSimple \/ Define

SpecDefine == Init /\ [][NextDefine]_vars

\* C6: defining a tool type other than RuntimeToolMeta's base, whose actions
\* accessor is abstract or not a class method, raises RuntimeError before an
\* action is re-namespaced or stored and before the tool is registered, with
\* autoload too; no such tool is in the registry.
C6_MalformedToolRejected ==
    [][ /\ outcome'.op = "class"
        /\ outcome'.name # RuntimeToolName
        /\ outcome'.accessor # "classmethod"
        => /\ outcome'.err = "RuntimeError"
           /\ UNCHANGED <<regVars, classes>> ]_vars

C6_Witness ==
    /\ outcome.op = "class"
    /\ outcome.accessor = "function"
    /\ outcome.autoload
    /\ outcome.err = "RuntimeError"
    /\ Len(outcome.acts) = 2

----------------------------------------------------------------------------
(* Compiling callables and invoking what was compiled *)

\* Bound on the number of arguments of a callable
MaxArgs == 2

ArgNames == {"request_data", "metadata", "shell", "x", "y"}

\* An argument without annotation
NoAnnot == [kind |-> "none", id |-> "", spec |-> <<>>]

AnnotChoices(arg) ==
    CASE arg = "request_data" -> {ModelAnnot("Req"), ClassAnnot("dict"), NoAnnot}
      [] arg = "metadata"     -> {ClassAnnot("dict"), NoAnnot}
      [] arg = "shell"        -> {ShellAnnot}
      [] arg = "x"            -> {ClassAnnot("int"), ShellAnnot,
                                  AnnotatedAnnot("int", <<StrItem(<<"an x">>)>>),
                                  AnnotatedAnnot("int",
                                      <<ArgSpecItem(<<"an x">>, [of |-> "spec"])>>),
                                  AnnotatedAnnot("int",
                                      <<ArgSpecItem(<<"an x">>, None)>>)}
      [] arg = "y"            -> {ClassAnnot("str"), NoAnnot,
                                  AnnotatedAnnot("str", <<OtherItem([of |-> "y"])>>)}

ReturnChoices == {NoAnnot, ModelAnnot("Res"), ClassAnnot("str")}

DocChoices ==
    { NoDoc,
      Doc("", <<>>),
      Doc("Do it.", <<DocLine("blank", "", <<>>, 0),
                      DocLine("param", "x", <<"the x">>, 2),
                      DocLine("return", "out", <<"the output">>, 2)>>),
      Doc("Do it.", <<DocLine("param", "x", <<"see: the x">>, 3)>>) }

\* Sequences of distinct argument names, at most n long
RECURSIVE ArgLists(_)
ArgLists(n) ==
    IF n = 0 THEN {<<>>}
    ELSE LET prev == ArgLists(n - 1)
         IN  prev \cup
             {Append(p[1], p[2]) :
                 p \in {q \in prev \X ArgNames :
                           Len(q[1]) = n - 1 /\ ~InSeq(q[2], q[1])}}

\* One annotation choice per argument
AnnotAssignments(args) ==
    {c \in [1..Len(args) -> UNION {AnnotChoices(a) : a \in ArgNames}] :
        \A i \in 1..Len(args) : c[i] \in AnnotChoices(args[i])}

\* getfullargspec(f).annotations: "return" first, then the annotated arguments
MkAnnotations(args, c, ret) ==
    (IF ret = NoAnnot THEN <<>> ELSE <<Annot("return", ret)>>)
        \o [i \in 1..Len(SelectSeq([j \in 1..Len(args) |-> j],
                                   LAMBDA j : c[j] # NoAnnot)) |->
              LET j == SelectSeq([k \in 1..Len(args) |-> k],
                                 LAMBDA k : c[k] # NoAnnot)[i]
              IN  Annot(args[j], c[j])]

\* getfullargspec(f).defaults: the defaults of the last nd arguments, each
\* value named after the argument it belongs to
MkDefaults(args, nd) ==
    [i \in 1..nd |-> [of |-> args[Len(args) - nd + i]]]

GoTo == <<"g","o","_","t","o">>

\* Invocation metadata: with or without the "workspace" key; `recent` is
\* metadata["workspace"].shells.recent
Metadatas ==
    { [has_workspace |-> FALSE, recent |-> "none"],
      [has_workspace |-> TRUE, recent |-> "sh1"] }

\* A valid instance of a synthesized request model, as model_dump() gives it
RequestOf(model) ==
    [a \in {model.spec[i].name : i \in 1..Len(model.spec)} |-> <<"request", a>>]

\* The arguments of f that have no default value
RequiredArgs(f) ==
    {f.args[i] : i \in 1..(Len(f.args) - Len(f.defaults))}

\* f(**kwargs): binding fails on a missing or an unexpected argument
CallKw(f, kwargs) ==
    IF RequiredArgs(f) \subseteq DOMAIN kwargs
       /\ DOMAIN kwargs \subseteq {f.args[i] : i \in 1..Len(f.args)}
    THEN "none" ELSE "TypeError"

\* The closure with `kwargs[shell_argument] = metadata["workspace"]`
execute_PassesWorkspace(entry, request, metadata, ret_is_model) ==
    LET kwargs0 == request
        kwargs == IF entry.shell_argument # NoArg
                  THEN [a \in DOMAIN kwargs0 \cup {entry.shell_argument} |->
                           IF a = entry.shell_argument
                           THEN <<"workspace">> ELSE kwargs0[a]]
                  ELSE kwargs0
        rname == IF entry.returns # NoReturns THEN entry.returns[1] ELSE "return"
    IN  IF entry.shell_argument # NoArg /\ ~metadata.has_workspace
        THEN [called |-> FALSE, err |-> "KeyError", metadata_read |-> TRUE,
              kwargs |-> kwargs0, ret |-> <<>>]
        ELSE [called |-> CallKw(entry.f, kwargs) = "none",
              err |-> CallKw(entry.f, kwargs),
              metadata_read |-> entry.shell_argument # NoArg,
              kwargs |-> kwargs,
              ret |-> IF CallKw(entry.f, kwargs) # "none" THEN <<>>
                      ELSE IF ret_is_model THEN <<"response">>
                      ELSE <<entry.ResponseSchema.id, rname>>]

\* execute(request, metadata) of _build_executable_from_args.  ret_is_model
\* says whether f returns a BaseModel instance; otherwise the value is
\* wrapped as ResponseSchema(**{rname: response}).
execute(entry, request, metadata, ret_is_model) ==
    LET kwargs0 == request
        kwargs == IF entry.shell_argument # NoArg
                  THEN [a \in DOMAIN kwargs0 \cup {entry.shell_argument} |->
                           IF a = entry.shell_argument
                           THEN metadata.recent ELSE kwargs0[a]]
                  ELSE kwargs0
        rname == IF entry.returns # NoReturns THEN entry.returns[1] ELSE "return"
    IN  IF entry.shell_argument # NoArg /\ ~metadata.has_workspace
        THEN [called |-> FALSE, err |-> "KeyError", metadata_read |-> TRUE,
              kwargs |-> kwargs0, ret |-> <<>>]
        ELSE [called |-> CallKw(entry.f, kwargs) = "none",
              err |-> CallKw(entry.f, kwargs),
              metadata_read |-> entry.shell_argument # NoArg,
              kwargs |-> kwargs,
              ret |-> IF CallKw(entry.f, kwargs) # "none" THEN <<>>
                      ELSE IF ret_is_model THEN <<"response">>
                      ELSE <<entry.ResponseSchema.id, rname>>]

\* _parse_schemas(f, runs_on_shell) as the decorator calls it
Compile(f, runs_on_shell) ==
    /\ compiled' = [f |-> f, runs_on_shell |-> runs_on_shell,
                    result |-> _parse_schemas(f, runs_on_shell)]
    /\ UNCHANGED <<regVars, classes, outcome, call, synthVars, threadVars, wsVars>>

\* WrappedAction.execute(request, metadata) on a compiled signature-path
\* entry point
Invoke(metadata, ret_is_model) ==
    /\ compiled.result.err = "none"
    /\ compiled.result.val.entry.kind = "execute"
    /\ call = NoCall
    /\ call' = [request |-> RequestOf(compiled.result.val.request),
                metadata |-> metadata]
               @@ execute(compiled.result.val.entry,
                          RequestOf(compiled.result.val.request),
                          metadata, ret_is_model)
    /\ UNCHANGED <<regVars, classes, outcome, compiled, synthVars, threadVars,
                   wsVars>>

\* One callable is compiled, then invoked
CompileOne ==
    /\ compiled = NoCompiled
    /\ \E args \in ArgLists(MaxArgs) :
       \E c \in AnnotAssignments(args), ret \in ReturnChoices,
          nd \in 0..Len(args), doc \in DocChoices, runs_on_shell \in BOOLEAN :
          Compile(Callable(GoTo, args, MkAnnotations(args, c, ret),
                           MkDefaults(args, nd), doc),
                  runs_on_shell)

InvokeOnce ==
    \E metadata \in Metadatas, ret_is_model \in BOOLEAN :
        Invoke(metadata, ret_is_model)

NextCompile == CompileOne \/ InvokeOnce

SpecCompile == Init /\ [][NextCompile]_vars

\* The callable declares a validated request record as request_data and a
\* validated response record as return annotation
DeclaresModels(f) ==
    /\ InSeq("request_data", f.args)
    /\ HasKey(f.annotations, "request_data")
    /\ AnnotOf(f.annotations, "request_data").kind = "Model"
    /\ HasKey(f.annotations, "return")
    /\ AnnotOf(f.annotations, "return").kind = "Model"

\* C7: for a callable on the simple path compile is a passthrough: the
\* entry point is the callable, the models are the declared ones and
\* runsOnShell is the decorator's value.
C7_SimplePathPassthrough ==
    compiled # NoCompiled /\ DeclaresModels(compiled.f)
        => /\ compiled.result.err = "none"
           /\ compiled.result.val.entry = compiled.f
           /\ compiled.result.val.request = ModelAnnot("Req")
           /\ compiled.result.val.response = ModelAnnot("Res")
           /\ compiled.result.val.runs_on_shell = compiled.runs_on_shell

C7_Witness ==
    /\ compiled # NoCompiled
    /\ DeclaresModels(compiled.f)
    /\ compiled.runs_on_shell
    /\ compiled.result.val.runs_on_shell

\* The arguments of f annotated with Shell
ShellArgs(f) ==
    {f.annotations[i].arg : i \in {j \in 1..Len(f.annotations) :
                                      f.annotations[j].annot.kind = "Shell"}}

FieldNames(model) == {model.spec[i].name : i \in 1..Len(model.spec)}

OnSignaturePath ==
    /\ compiled # NoCompiled
    /\ compiled.result.err = "none"
    /\ compiled.result.val.entry.kind = "execute"

\* C8: on the signature path, with one Shell argument s: s is no field of
\* the request model, runsOnShell is true, and an invocation passes
\* metadata["workspace"].shells.recent as s and the request's values as all
\* other arguments; with no Shell argument runsOnShell is false and an
\* invocation does not read metadata.
C8_ShellArgumentRouted ==
    OnSignaturePath =>
        /\ \A s \in ShellArgs(compiled.f) :
              ShellArgs(compiled.f) = {s} =>
                /\ s \notin FieldNames(compiled.result.val.request)
                /\ compiled.result.val.runs_on_shell
                /\ call # NoCall =>
                     IF call.metadata.has_workspace
                     THEN /\ call.metadata_read
                          /\ DOMAIN call.kwargs = DOMAIN call.request \cup {s}
                          /\ call.kwargs[s] = call.metadata.recent
                          /\ \A a \in DOMAIN call.kwargs \ {s} :
                                call.kwargs[a] = call.request[a]
                     ELSE ~call.called /\ call.err = "KeyError"
        /\ ShellArgs(compiled.f) = {} =>
              /\ ~compiled.result.val.runs_on_shell
              /\ call # NoCall =>
                    /\ ~call.metadata_read
                    /\ call.kwargs = call.request

C8_Witness ==
    /\ OnSignaturePath
    /\ ShellArgs(compiled.f) = {"shell"}
    /\ compiled.f.args = <<"shell", "x">>
    /\ call # NoCall
    /\ call.called
    /\ call.kwargs["shell"] = "sh1"
    /\ call.kwargs["x"] = <<"request", "x">>

C8_WitnessNoShell ==
    /\ OnSignaturePath
    /\ ShellArgs(compiled.f) = {}
    /\ call # NoCall
    /\ call.called

----------------------------------------------------------------------------
(* Schema synthesis (autogen_toolspec.py) *)

\* A schema node is a dict: a record whose DOMAIN is the keys it has.
\* `properties` is an ordered mapping: a sequence of [name, info].  Titles
\* are sequences of words and spaces.  A model made by create_model is
\* [name, fields]; a field keeps its annotation and its Field(...) values.

schema_type_python_type_dict ==
    [string |-> "str", number |-> "float", boolean |-> "bool", array |-> "List"]

fallback_values ==
    [string |-> "''", number |-> "0.0", boolean |-> "False", object |-> "{}",
     array |-> "[]"]

\* Field(...): required, no default
PydanticUndefined == "PydanticUndefined"

\* Field(title=..., default=...) has no description
NoDescription == <<>>

\* title.replace(" ", "")
StripSpaces(title) == SelectSeq(title, LAMBDA w : w # " ")

\* dict.get(key, default)
Get(d, key, default) == IF key \in DOMAIN d THEN d[key] ELSE default

PyType(name) == [kind |-> "py", name |-> name]

ModelType(model) == [kind |-> "model", model |-> model]

\* pydantic_model_from_param_schema; FieldsLoop is its loop over
\* param_schema['properties'].items() from item i on
RECURSIVE pydantic_model_from_param_schema(_)
RECURSIVE FieldsLoop(_, _, _, _)
FieldsLoop(props, i, required_props, fields) ==
    IF i > Len(props) THEN Ok(fields)
    ELSE
    LET prop_name == props[i].name
        prop_info == props[i].info
    IN  IF "type" \notin DOMAIN prop_info \/ "title" \notin DOMAIN prop_info
        THEN Raise("KeyError")
        ELSE
        LET prop_type  == prop_info.type
            prop_title == StripSpaces(prop_info.title)
        IN  IF prop_type \notin DOMAIN fallback_values
            THEN Raise("KeyError")
            ELSE
            LET prop_default == Get(prop_info, "default", fallback_values[prop_type])
                nested == IF prop_type \in DOMAIN schema_type_python_type_dict
                          THEN Ok(<<>>)
                          ELSE pydantic_model_from_param_schema(prop_info)
                signature_prop_type ==
                    IF prop_type \in DOMAIN schema_type_python_type_dict
                    THEN PyType(schema_type_python_type_dict[prop_type])
                    ELSE ModelType(nested.val)
            IN  IF nested.err # "none" THEN nested
                ELSE FieldsLoop(props, i + 1, required_props,
                        Append(fields,
                            IF prop_name \in required_props
                            THEN [name |-> prop_name, type |-> signature_prop_type,
                                  title |-> prop_title, required |-> TRUE,
                                  default |-> PydanticUndefined,
                                  description |->
                                      Get(prop_info, "description",
                                          Get(prop_info, "desc", prop_title))]
                            ELSE [name |-> prop_name, type |-> signature_prop_type,
                                  title |-> prop_title, required |-> FALSE,
                                  default |-> prop_default,
                                  description |-> NoDescription]))

pydantic_model_from_param_schema(param_schema) ==
    IF "title" \notin DOMAIN param_schema \/ "properties" \notin DOMAIN param_schema
    THEN Raise("KeyError")
    ELSE LET fields == FieldsLoop(param_schema.properties, 1,
                                  Get(param_schema, "required", {}), <<>>)
         IN  IF fields.err # "none" THEN fields
             ELSE Ok([name |-> StripSpaces(param_schema.title),
                      fields |-> fields.val])

\* Parameter.empty
ParameterEmpty == "Parameter.empty"

\* The loop of get_signature_format_from_schema_params from item i on
RECURSIVE ParametersLoop(_, _, _, _)
ParametersLoop(props, i, required_params, parameters) ==
    IF i > Len(props) THEN Ok(parameters)
    ELSE
    LET param_name   == props[i].name
        param_schema == props[i].info
    IN  IF "type" \notin DOMAIN param_schema \/ "title" \notin DOMAIN param_schema
        THEN Raise("KeyError")
        ELSE
        LET param_type  == param_schema.type
            param_title == StripSpaces(param_schema.title)
            nested == IF param_type \in DOMAIN schema_type_python_type_dict
                      THEN Ok(<<>>)
                      ELSE pydantic_model_from_param_schema(param_schema)
            signature_param_type ==
                IF param_type \in DOMAIN schema_type_python_type_dict
                THEN PyType(schema_type_python_type_dict[param_type])
                ELSE ModelType(nested.val)
        IN  IF nested.err # "none" THEN nested
            ELSE IF param_type \notin DOMAIN fallback_values
            THEN Raise("KeyError")
            ELSE ParametersLoop(props, i + 1, required_params,
                    Append(parameters,
                        [name |-> param_name,
                         annotation |-> signature_param_type,
                         description |->
                             Get(param_schema, "description",
                                 Get(param_schema, "desc", param_title)),
                         default |->
                             IF param_name \in required_params
                             THEN ParameterEmpty
                             ELSE Get(param_schema, "default",
                                      fallback_values[param_type])]))

get_signature_format_from_schema_params(schema_params) ==
    IF "properties" \notin DOMAIN schema_params
    THEN Raise("KeyError")
    ELSE ParametersLoop(schema_params.properties, 1,
                        Get(schema_params, "required", {}), <<>>)

----------------------------------------------------------------------------
(* Synthesizing bounded schemas *)

\* Bound on the nesting of object properties below the top-level schema
MaxDepth == 1

LeafSchemas ==
    { [type |-> "string", title |-> <<"Line", " ", "Text">>,
       description |-> <<"the text">>],
      [type |-> "number", title |-> <<"Count">>, desc |-> <<"how many">>,
       default |-> "1.5"],
      [type |-> "boolean", title |-> <<"Dry", " ", "Run">>],
      [type |-> "array", title |-> <<"Items">>, description |-> <<"the items">>,
       desc |-> <<"old text">>, default |-> "[1]"],
      [type |-> "integer", title |-> <<"Line">>, description |-> <<"a line">>],
      [type |-> "integer", title |-> <<"Line">>, description |-> <<"a line">>,
       default |-> "3"] }

Prop(name, info) == [name |-> name, info |-> info]

\* Property lists "p" or "p", "q"; the last property is drawn from `last`
PropLists(last) ==
    {<<Prop("p", l)>> : l \in last}
        \cup {<<Prop("p", pr[1]), Prop("q", pr[2])>> : pr \in LeafSchemas \X last}

\* The `required` key: absent, or a non-empty set of property names
RequiredChoices(props) ==
    {[present |-> FALSE, names |-> {}]}
        \cup {[present |-> TRUE, names |-> r] :
                 r \in SUBSET {props[i].name : i \in 1..Len(props)} \ {{}}}

ObjectSchema(props, req) ==
    IF ~req.present
    THEN [type |-> "object", title |-> <<"Obj", " ", "Arg">>,
          description |-> <<"an object">>, properties |-> props]
    ELSE [type |-> "object", title |-> <<"Obj", " ", "Arg">>,
          description |-> <<"an object">>, properties |-> props,
          required |-> req.names]

\* Object schemas with at most d levels of object properties below them
RECURSIVE ObjectSchemas(_)
ObjectSchemas(d) ==
    UNION { {ObjectSchema(props, req) : req \in RequiredChoices(props)} :
            props \in PropLists(IF d = 0 THEN LeafSchemas
                                ELSE LeafSchemas \cup ObjectSchemas(d - 1)) }

\* inspect.Signature(parameters=...): a parameter without a default after
\* one with a default is a ValueError, and so is a repeated name
RECURSIVE SignatureLoop(_, _, _, _)
SignatureLoop(parameters, i, seen_default, seen_names) ==
    IF i > Len(parameters) THEN Ok(parameters)
    ELSE IF parameters[i].default = ParameterEmpty /\ seen_default
         THEN Raise("ValueError")
    ELSE IF parameters[i].name \in seen_names
         THEN Raise("ValueError")
    ELSE SignatureLoop(parameters, i + 1,
                       seen_default \/ parameters[i].default # ParameterEmpty,
                       seen_names \cup {parameters[i].name})

Signature(parameters) == SignatureLoop(parameters, 1, FALSE, {})

\* _register_schema_to_autogen up to the Signature it builds from
\* action_schema["parameters"]
_register_schema_to_autogen(schema_params) ==
    LET parameters == get_signature_format_from_schema_params(schema_params)
    IN  IF parameters.err # "none" THEN parameters
        ELSE Signature(parameters.val)

\* _register_schema_to_autogen's call of the synthesizer on
\* action_schema["parameters"], and the model of the same schema
Synthesize(schema_params) ==
    /\ schema' = schema_params
    /\ synth' = [model |-> pydantic_model_from_param_schema(schema_params),
                 parameters |-> get_signature_format_from_schema_params(schema_params),
                 signature |-> _register_schema_to_autogen(schema_params)]
    /\ UNCHANGED <<regVars, classes, outcome, compVars, threadVars, wsVars>>

SynthesizeOne ==
    /\ schema = NoSchema
    /\ \E props \in PropLists(IF MaxDepth = 0 THEN LeafSchemas
                              ELSE LeafSchemas \cup ObjectSchemas(MaxDepth - 1)) :
          \E req \in RequiredChoices(props) :
             Synthesize(ObjectSchema(props, req))

NextSynth == SynthesizeOne

SpecSynth == Init /\ [][NextSynth]_vars

\* Every property of the schema has a primitive type
PrimitiveLeaves(s) ==
    \A i \in 1..Len(s.properties) :
        s.properties[i].info.type \in DOMAIN schema_type_python_type_dict

\* The description the schema gives a property: description, else desc,
\* else the title
SchemaDescription(info) ==
    Get(info, "description", Get(info, "desc", StripSpaces(info.title)))

\* C9: for a schema with only primitive leaves the model has one field per
\* property, required iff listed in `required`, with the schema's default or
\* the type's fallback when optional, and with the schema's description, for
\* optional fields as for required ones.
C9_ModelReflectsSchema ==
    schema # NoSchema /\ PrimitiveLeaves(schema) =>
        /\ synth.model.err = "none"
        /\ Len(synth.model.val.fields) = Len(schema.properties)
        /\ \A i \in 1..Len(schema.properties) :
              LET fld  == synth.model.val.fields[i]
                  info == schema.properties[i].info
              IN  /\ fld.name = schema.properties[i].name
                  /\ fld.required <=>
                        schema.properties[i].name \in Get(schema, "required", {})
                  /\ ~fld.required =>
                        fld.default = Get(info, "default", fallback_values[info.type])
                  /\ fld.description = SchemaDescription(info)

\* The descriptions read out of a model are those of the schema's
\* properties, in nested models too
RECURSIVE DescriptionsReadBack(_, _)
DescriptionsReadBack(model, s) ==
    /\ Len(model.fields) = Len(s.properties)
    /\ \A i \in 1..Len(s.properties) :
          /\ model.fields[i].description = SchemaDescription(s.properties[i].info)
          /\ s.properties[i].info.type = "object" =>
                /\ model.fields[i].type.kind = "model"
                /\ DescriptionsReadBack(model.fields[i].type.model,
                                        s.properties[i].info)

\* C10: the field of a nested object property has a synthesized model as its
\* type, and the field descriptions read out of that model are the
\* descriptions of the nested schema's properties, at every depth.
C10_NestedModelReadsBack ==
    schema # NoSchema /\ synth.model.err = "none" =>
        \A i \in 1..Len(schema.properties) :
            schema.properties[i].info.type = "object" =>
                /\ synth.model.val.fields[i].type.kind = "model"
                /\ DescriptionsReadBack(synth.model.val.fields[i].type.model,
                                        schema.properties[i].info)

----------------------------------------------------------------------------
(* Failure and ordering claims of the schema synthesizer *)

\* The leaf and object types the synthesizer knows
KnownTypes == {"string", "number", "boolean", "array", "object"}

\* Some top-level property of the schema has a type outside KnownTypes
HasUnknownType(s) ==
    \E i \in 1..Len(s.properties) : s.properties[i].info.type \notin KnownTypes

\* C11: a schema with a property of unknown type ends synthesis in the
\* dedicated error UnsupportedSchemaType, in the model builder and in the
\* parameter builder, with or without a default on the property.
C11_UnknownTypeIsSynthesisError ==
    schema # NoSchema /\ HasUnknownType(schema) =>
        /\ synth.model.err = "UnsupportedSchemaType"
        /\ synth.parameters.err = "UnsupportedSchemaType"

\* The parameters have the names of the schema's properties, in their order
KeepsDeclarationOrder(parameters, s) ==
    /\ Len(parameters) = Len(s.properties)
    /\ \A i \in 1..Len(parameters) : parameters[i].name = s.properties[i].name

\* C18: the parameter list keeps the declaration order of the properties
\* and the Signature is built from it for every schema whose parameters
\* could be built, whatever the order of required and optional properties.
C18_ParametersFormSignature ==
    schema # NoSchema /\ synth.parameters.err = "none" =>
        /\ KeepsDeclarationOrder(synth.parameters.val, schema)
        /\ synth.signature.err = "none"

----------------------------------------------------------------------------
(* Failure and default claims of the callable compiler *)

\* C12: a callable with more than one Shell argument is rejected at compile
\* time (with InvalidContextArgument when nothing else is wrong with it);
\* compile never succeeds for it.
C12_TwoShellArgumentsRejected ==
    compiled # NoCompiled /\ Cardinality(ShellArgs(compiled.f)) > 1 =>
        compiled.result.err # "none"

\* The request model of registered action a was synthesized by
\* _build_executable_from_args
Synthesized(a) == actions[a].request.kind = "Synth"

\* C13: no two registered actions have synthesized request models, or
\* response models, of the same name: the second compile of a callable with
\* a name already used is an error, and is not registered.
C13_ModelNameCollisionRejected ==
    \A a, b \in ActionIds :
        a # b /\ Synthesized(a) /\ Synthesized(b) =>
            /\ actions[a].request.id # actions[b].request.id
            /\ actions[a].response.id # actions[b].response.id

\* The callable goes to _build_executable_from_args: _is_simple_action
\* returns False for it
SignaturePathCallable(f) ==
    ~InSeq("request_data", f.args) /\ ~InSeq("metadata", f.args)

\* A docstring without description: __doc__ is None or has an empty header
EmptyDocstring(doc) == ~doc.present \/ (doc.header = "" /\ doc.lines = <<>>)

\* C14: compiling a callable on the signature path whose docstring is empty
\* raises an error; compile returns no models for it.
C14_EmptyDocstringRejected ==
    /\ compiled # NoCompiled
    /\ SignaturePathCallable(compiled.f)
    /\ EmptyDocstring(compiled.f.doc)
    => compiled.result.err # "none"

\* The default value argument a of f was declared with; Ellipsis when it has
\* none (the field is required)
OwnDefault(f, a) ==
    LET i == CHOOSE j \in 1..Len(f.args) : f.args[j] = a
    IN  IF i > Len(f.args) - Len(f.defaults)
        THEN f.defaults[i - (Len(f.args) - Len(f.defaults))]
        ELSE Ellipsis

\* The annotated arguments of f that are neither Shell nor Annotated
PlainArgs(f) ==
    {f.annotations[i].arg :
        i \in {j \in 1..Len(f.annotations) :
                  /\ f.annotations[j].arg # "return"
                  /\ f.annotations[j].annot.kind \notin {"Shell", "Annotated"}}}

\* C15: on the signature path every argument without Annotated metadata has
\* a request field whose default is the argument's own default, Ellipsis
\* (required) when it has none; and the response field of a return
\* annotation without metadata has no default.
C15_FieldDefaultIsOwnDefault ==
    OnSignaturePath =>
        /\ \A a \in PlainArgs(compiled.f) :
              \E i \in 1..Len(compiled.result.val.request.spec) :
                 /\ compiled.result.val.request.spec[i].name = a
                 /\ compiled.result.val.request.spec[i].default
                        = OwnDefault(compiled.f, a)
        /\ \A i \in 1..Len(compiled.result.val.response.spec) :
              compiled.result.val.response.spec[i].type.kind # "Annotated" =>
                 compiled.result.val.response.spec[i].default = Ellipsis

\* C20: a callable is on the simple path exactly when it names both
\* request_data and metadata; one that names at most one of them is compiled
\* by _build_executable_from_args and gets that function's result.
C20_SimplePathIffBothNamed ==
    compiled # NoCompiled =>
        IF InSeq("request_data", compiled.f.args) /\ InSeq("metadata", compiled.f.args)
        THEN _is_simple_action(compiled.f) # Ok(FALSE)
        ELSE compiled.result = _build_executable_from_args(compiled.f)

----------------------------------------------------------------------------
(* Registrations from several threads: _wrap step by step *)

\* The callables and tool names the threads register
ConcCallables == { PlainFn(<<"e">>), BadFn(<<"e">>) }

ConcTools == { <<"a","b">>, <<"c","d">> }

\* The decorator up to the read of the tool's existing actions: f is
\* compiled, the WrappedAction class is created, and existing_actions is
\* read from the registry (runtime.py 368-371, 157-192).  `seen` keeps where
\* every thread stood at the time of the read.
ReadExisting(t) ==
    /\ threads[t].pc = "idle"
    /\ \E f \in ConcCallables, toolname \in ConcTools :
          LET parsed == _parse_schemas(f, FALSE)
              id     == Len(actions) + 1
          IN  IF parsed.err # "none"
              THEN /\ threads' = [threads EXCEPT ![t].pc = "raised",
                                                 ![t].toolname = toolname]
                   /\ UNCHANGED regVars
              ELSE LET cls == WrappedAction(parsed.val.entry, toolname, <<>>,
                                  parsed.val.request, parsed.val.response,
                                  parsed.val.runs_on_shell)
                   IN  /\ actions' = Append(actions, cls)
                       /\ actionEnum' = Append(actionEnum, cls.enum)
                       /\ actionTool' = Append(actionTool, cls.tool)
                       /\ threads' = [threads EXCEPT ![t] =
                              [pc |-> "read", toolname |-> toolname, id |-> id,
                               existing_actions |-> ExistingActions(registry, toolname),
                               tool |-> <<>>,
                               seen |-> [u \in Threads |-> threads[u].pc]]]
                       /\ UNCHANGED <<registry, runtimeActions>>
    /\ UNCHANGED <<classes, outcome, compVars, synthVars, wsVars>>

\* The step below when the registry is read again as the tool is created
CreateTool_ReadsAgain(t) ==
    /\ threads[t].pc = "read"
    /\ LET tool == _create_tool_class(threads[t].toolname,
                        <<threads[t].id>>
                            \o ExistingActions(registry, threads[t].toolname),
                        actionEnum, actionTool)
       IN  /\ actionEnum' = tool.val.actionEnum
           /\ actionTool' = tool.val.actionTool
           /\ threads' = [threads EXCEPT ![t].pc = "created",
                                         ![t].tool = tool.val.cls]
    /\ UNCHANGED <<registry, actions, runtimeActions, classes, outcome,
                   compVars, synthVars, wsVars>>

\* tool = _create_tool_class(name=toolname, actions=[cls, *existing_actions])
\* (runtime.py 193): the hook re-namespaces the listed action classes
CreateTool(t) ==
    /\ threads[t].pc = "read"
    /\ LET tool == _create_tool_class(threads[t].toolname,
                        <<threads[t].id>> \o threads[t].existing_actions,
                        actionEnum, actionTool)
       IN  /\ actionEnum' = tool.val.actionEnum
           /\ actionTool' = tool.val.actionTool
           /\ threads' = [threads EXCEPT ![t].pc = "created",
                                         ![t].tool = tool.val.cls]
    /\ UNCHANGED <<registry, actions, runtimeActions, classes, outcome,
                   compVars, synthVars, wsVars>>

\* registry["runtime"][toolname] = tool() (runtime.py 194)
StoreTool(t) ==
    /\ threads[t].pc = "created"
    /\ registry' = [n \in DOMAIN registry \cup {threads[t].toolname} |->
                       IF n = threads[t].toolname THEN threads[t].tool
                       ELSE registry[n]]
    /\ threads' = [threads EXCEPT ![t].pc = "stored"]
    /\ UNCHANGED <<actionEnum, actionTool, actions, runtimeActions, classes,
                   outcome, compVars, synthVars, wsVars>>

\* add_runtime_action(cls.enum, cls.data); return cls (runtime.py 195-196)
AddRuntimeAction(t) ==
    /\ threads[t].pc = "stored"
    /\ runtimeActions' = add_runtime_action(runtimeActions,
                             actionEnum[threads[t].id],
                             actions[threads[t].id].data)
    /\ actions' = [actions EXCEPT ![threads[t].id].key = actionEnum[threads[t].id]]
    /\ threads' = [threads EXCEPT ![t].pc = "done"]
    /\ UNCHANGED <<registry, actionEnum, actionTool, classes, outcome,
                   compVars, synthVars, wsVars>>

NextThreads ==
    \E t \in Threads :
        ReadExisting(t) \/ CreateTool(t) \/ StoreTool(t) \/ AddRuntimeAction(t)

SpecThreads == Init /\ [][NextThreads]_vars

\* Threads t and u have both finished a registration under the same tool
BothRegistered(t, u) ==
    /\ t # u
    /\ threads[t].pc = "done"
    /\ threads[u].pc = "done"
    /\ threads[t].toolname = threads[u].toolname

\* u read the tool's existing actions while t had read them and not stored
\* its tool: both read before either stored
ReadBeforeEitherStored(t, u) == threads[u].seen[t] \in {"read", "created"}

\* u began after t had returned
OneAfterTheOther(t, u) == threads[u].seen[t] = "done"

StoredActions(t) ==
    {registry[threads[t].toolname].actions[i] :
        i \in 1..Len(registry[threads[t].toolname].actions)}

\* No third thread registers under the tool of t and u
OnlyTwo(t, u) ==
    \A w \in Threads \ {t, u} :
        threads[w].pc \in {"idle", "raised"}
            \/ threads[w].toolname # threads[t].toolname

\* C16: of two registrations under one tool name whose reads both came
\* before either store, the tool finally stored lists only one action; when
\* one registration ran after the other had returned, and they are the only
\* two, it lists both.
C16_InterleavedRegistrationLosesAction ==
    \A t, u \in Threads :
        BothRegistered(t, u) =>
            /\ ReadBeforeEitherStored(t, u) =>
                  ~({threads[t].id, threads[u].id} \subseteq StoredActions(t))
            /\ OneAfterTheOther(t, u) /\ OnlyTwo(t, u) =>
                  {threads[t].id, threads[u].id} \subseteq StoredActions(t)

C16_Witness ==
    \E t, u \in Threads :
        /\ BothRegistered(t, u)
        /\ ReadBeforeEitherStored(t, u)
        /\ threads[t].id \notin StoredActions(t)
        /\ threads[u].id \in StoredActions(t)

C16_WitnessSerial ==
    \E t, u \in Threads :
        /\ BothRegistered(t, u)
        /\ OneAfterTheOther(t, u)
        /\ registry[threads[t].toolname].actions = <<threads[u].id, threads[t].id>>

----------------------------------------------------------------------------
(* What a registration leaves alone *)

\* The enum-to-data mapping changes at most at enum k
ChangesOnlyAt(k) ==
    /\ DOMAIN runtimeActions' = DOMAIN runtimeActions \cup {k}
    /\ \A e \in DOMAIN runtimeActions \ {k} : runtimeActions'[e] = runtimeActions[e]

----------------------------------------------------------------------------
(* Workspace command actions (cmd_manager/actions) *)

\* Bound on the number of commands sent to workspaces
MaxCommands == 2

\* BaseAction._setup with the workspace check left out
_setup_NoCheck(ws) == Ok(ws)

\* BaseAction._setup: raises when no workspace is attached to the action
_setup(ws) == IF ws = None THEN Raise("ValueError") ELSE Ok(ws)

\* A str value, and a value formatted into a command by an f-string
Str(chars) == [str |-> chars]

Formatted(v) == [text |-> v]

\* file_name.strip() == "": every character is a blank
IsBlank(file_name) ==
    \A i \in 1..Len(file_name.str) : file_name.str[i] = " "

\* CreateFileCmd.validate_file_name
validate_file_name(file_name) == file_name # None /\ ~IsBlank(file_name)

\* What an execute body did: the error it raised, the commands it passed to
\* workspace.communicate, and whether it returned a response of its own
Raised(e) == [err |-> e, sent |-> <<>>, own_response |-> FALSE]

Communicated(ws, command) ==
    [err |-> "none", sent |-> <<[workspace |-> ws, command |-> command]>>,
     own_response |-> FALSE]

Returned == [err |-> "none", sent |-> <<>>, own_response |-> TRUE]

\* history_recorder(): the decorator around every execute; it hands the
\* call through
history_recorder(result) == result

\* GoToLineNumInOpenFile.execute
GoToLineNumInOpenFile_execute(ws, request_data) ==
    IF _setup(ws).err # "none" THEN Raised(_setup(ws).err)
    ELSE IF ws = None THEN Raised("ValueError")
    ELSE Communicated(ws, <<Formatted("goto"),
                               Formatted(request_data.line_number)>>)

\* CreateFileCmd.execute
CreateFileCmd_execute(ws, request_data) ==
    IF _setup(ws).err # "none" THEN Raised(_setup(ws).err)
    ELSE IF ~validate_file_name(request_data.file_name) THEN Returned
    ELSE IF ws = None THEN Raised("ValueError")
    ELSE Communicated(ws, <<Formatted("create"),
                               Formatted(request_data.file_name)>>)

\* OpenFile.execute
OpenFile_execute(ws, request_data) ==
    LET command == <<Formatted("open"), Formatted(request_data.file_name)>>
                       \o IF request_data.line_number # 0
                          THEN <<Formatted(request_data.line_number)>>
                          ELSE <<>>
    IN  IF _setup(ws).err # "none" THEN Raised(_setup(ws).err)
        ELSE IF ws = None THEN Raised("ValueError")
        ELSE Communicated(ws, command)

\* Valid requests of the three actions
Requests(a) ==
    CASE a = "GoToLineNumInOpenFile" -> {[line_number |-> n] : n \in {0, 7}}
      [] a = "CreateFileCmd" ->
            {[file_name |-> Str(f)] : f \in {<<>>, <<" ">>, <<"a">>, <<" ", "a">>}}
      [] a = "OpenFile" ->
            {[file_name |-> Str(<<"a">>), line_number |-> n] : n \in {0, 7}}

\* What WorkspaceFactory.get_registered_manager may give: a workspace, or None
Managers == {None, [of |-> "ws1"], [of |-> "ws2"]}

\* BaseAction.set_workspace on action a
set_workspace(a, manager) ==
    /\ workspace' = [workspace EXCEPT ![a] = manager]
    /\ outcome' = [op |-> "set_workspace", action |-> a, err |-> "none"]
    /\ UNCHANGED <<regVars, classes, compVars, synthVars, threadVars, commands>>

\* execute(request_data, authorisation_data) on action a
Execute(a, request_data) ==
    LET r == history_recorder(
                CASE a = "GoToLineNumInOpenFile" ->
                        GoToLineNumInOpenFile_execute(workspace[a], request_data)
                  [] a = "CreateFileCmd" ->
                        CreateFileCmd_execute(workspace[a], request_data)
                  [] a = "OpenFile" ->
                        OpenFile_execute(workspace[a], request_data))
    IN  /\ commands' = commands \o r.sent
        /\ outcome' = [op |-> "execute", action |-> a, err |-> r.err,
                        request |-> request_data,
                        own_response |-> r.own_response]
        /\ UNCHANGED <<regVars, classes, compVars, synthVars, threadVars, workspace>>

SetWorkspace ==
    \E a \in WorkspaceActions, manager \in Managers : set_workspace(a, manager)

ExecuteSome ==
    /\ Len(commands) < MaxCommands
    /\ \E a \in WorkspaceActions : \E request_data \in Requests(a) :
          Execute(a, request_data)

NextWorkspace == SetWorkspace \/ ExecuteSome

SpecWorkspace == Init /\ [][NextWorkspace]_vars

\* C17: an execute of one of the three actions with no workspace attached
\* raises and sends nothing; a command is sent only by an execute of an
\* action that has a workspace attached, and goes to that workspace.
C17_NoWorkspaceNoCommand ==
    [][ /\ outcome'.op = "execute" /\ workspace[outcome'.action] = None
            => outcome'.err # "none" /\ commands' = commands
        /\ commands' # commands
            => /\ outcome'.op = "execute"
               /\ workspace[outcome'.action] # None
               /\ Len(commands') = Len(commands) + 1
               /\ commands'[Len(commands')].workspace = workspace[outcome'.action]
      ]_vars

C17_Witness ==
    /\ outcome.op = "execute"
    /\ outcome.action = "CreateFileCmd"
    /\ outcome.request.file_name = Str(<<" ">>)
    /\ outcome.err = "ValueError"
    /\ workspace["CreateFileCmd"] = None
    /\ Len(commands) > 0

----------------------------------------------------------------------------
(* Arguments annotated with a description *)

\* The Annotated arguments of f whose metadata is a description without a
\* default: a bare str, or an ArgSpec whose default was not given
DescribedWithoutDefault(f) ==
    {f.annotations[i].arg :
        i \in {j \in 1..Len(f.annotations) :
                  /\ f.annotations[j].arg # "return"
                  /\ f.annotations[j].annot.kind = "Annotated"
                  /\ Len(f.annotations[j].annot.spec) = 1
                  /\ f.annotations[j].annot.spec[1].k \in {"str", "ArgSpec"}
                  /\ f.annotations[j].annot.spec[1].default = None}}

\* C21: on the signature path an argument whose Annotated metadata gives a
\* description and no default is a required field of the request model: its
\* default is Ellipsis, as for an argument without annotation metadata and
\* without default.
C21_DescribedArgumentRequired ==
    OnSignaturePath =>
        \A a \in DescribedWithoutDefault(compiled.f) :
            \E i \in 1..Len(compiled.result.val.request.spec) :
                /\ compiled.result.val.request.spec[i].name = a
                /\ compiled.result.val.request.spec[i].default = Ellipsis

====
